---- MODULE Spec2Model ----
\* Model of notebook_doc/doc_functions.py: the pipeline
\*   get_functions -> parse_docstrings -> generate_html
\* run by render_documentation, and generate_html called on its own.
EXTENDS Integers, Sequences, FiniteSets, TLC

\* ---------------------------------------------------------------------
\* Bounds
\* ---------------------------------------------------------------------
\* largest namespace (number of entries of globals_dict)
MaxEntries == 2
\* longest list of normalized records handed directly to generate_html
MaxRecords == 2

\* ---------------------------------------------------------------------
\* Python values: None, optional values, text
\* ---------------------------------------------------------------------
\* An optional value is a sequence of length at most one: None is <<>>,
\* a present value x is <<x>>.  A present empty list is <<<<>>>>, which
\* differs from None as [] differs from None in Python.
None == <<>>
Some(x) == <<x>>
IsNone(o) == o = <<>>
Get(o) == o[1]

\* A text that is escaped is a sequence of chunks; the characters "\n" and
\* "\t" are chunks of their own.

\* str.replace("\n", "<br>").replace("\t", "&nbsp;&nbsp;&nbsp;&nbsp;")
Escape(text) ==
    [i \in DOMAIN text |->
        IF text[i] = "\n" THEN "<br>"
        ELSE IF text[i] = "\t" THEN "&nbsp;&nbsp;&nbsp;&nbsp;"
        ELSE text[i]]

\* sep.join(strs)
RECURSIVE Join(_, _)
Join(sep, strs) ==
    IF Len(strs) = 0 THEN ""
    ELSE IF Len(strs) = 1 THEN strs[1]
    ELSE strs[1] \o sep \o Join(sep, Tail(strs))

\* ---------------------------------------------------------------------
\* Annotations as typing.get_type_hints and inspect.signature show them
\* ---------------------------------------------------------------------
\* kind:  "none"   no annotation (the name is no key of type_hints)
\*        "single" get_origin(hint) is not Union
\*        "union"  get_origin(hint) is Union; names are those of get_args
\* names: per member, its __name__, or None when the attribute lookup
\*        raises AttributeError (typing.List[int] before Python 3.10)
\* text:  the annotation as inspect.signature prints it
NoAnn == [kind |-> "none", names |-> <<>>, text |-> ""]
IntAnn == [kind |-> "single", names |-> <<Some("int")>>, text |-> "int"]
ListAnn == [kind |-> "single", names |-> <<None>>, text |-> "List[int]"]
IntOrStrAnn == [kind |-> "union", names |-> <<Some("int"), Some("str")>>, text |-> "Union[int, str]"]
StrOrIntAnn == [kind |-> "union", names |-> <<Some("str"), Some("int")>>, text |-> "Union[str, int]"]
IntOrListAnn == [kind |-> "union", names |-> <<Some("int"), None>>, text |-> "Union[int, List[int]]"]

\* [t.__name__ for t in get_args(hint)] raises when a member has no __name__,
\* and so does hint.__name__
AllNamed(ann) == \A i \in DOMAIN ann.names : ~IsNone(ann.names[i])
MemberNames(ann) == [i \in DOMAIN ann.names |-> Get(ann.names[i])]

\* ---------------------------------------------------------------------
\* Signatures
\* ---------------------------------------------------------------------
Param(n, ann) == [name |-> n, ann |-> ann]

\* The functions' signatures: params in declaration order and the return
\* annotation.
Signatures ==
    { [params |-> <<Param("a", IntAnn), Param("b", IntAnn)>>, ret |-> IntAnn],
      [params |-> <<>>, ret |-> NoAnn],
      [params |-> <<>>, ret |-> IntOrStrAnn],
      [params |-> <<Param("x", NoAnn)>>, ret |-> StrOrIntAnn],
      [params |-> <<Param("a", IntOrStrAnn), Param("x", NoAnn)>>, ret |-> NoAnn],
      [params |-> <<Param("x", ListAnn)>>, ret |-> IntAnn],
      [params |-> <<Param("a", IntAnn)>>, ret |-> ListAnn],
      [params |-> <<Param("a", IntOrListAnn)>>, ret |-> NoAnn],
      [params |-> <<Param("x", IntAnn)>>, ret |-> IntOrListAnn] }

\* str(inspect.signature(f)): "(a: int, b: int) -> int"
ParamText(p) == IF p.ann.kind = "none" THEN p.name ELSE p.name \o ": " \o p.ann.text
SignatureText(sig) ==
    "(" \o Join(", ", [i \in DOMAIN sig.params |-> ParamText(sig.params[i])]) \o ")"
        \o (IF sig.ret.kind = "none" THEN "" ELSE " -> " \o sig.ret.text)

\* ---------------------------------------------------------------------
\* Docstrings and docstring_parser.parse
\* ---------------------------------------------------------------------
\* The __doc__ texts of the functions.
DocAdd == "Adds two numbers.\n\nArgs:\n    a: first\n    b: second\n\nReturns:\n    int: sum"
DocShort == "Says hi."
DocNumpy == "Gets it.\n\nReturns\n-------\nint"
DocScale == "Scales.\n\nLong\nmore.\n\nArgs:\n    x (str): factor\n\nRaises:\n    ValueError: bad\n\nExamples:\n    usage"

\* f.__doc__: None when the function has no docstring
Docs == {None, Some(DocAdd), Some(DocShort), Some(DocNumpy), Some(DocScale)}

DocstringParam(n, t, opt, d) ==
    [arg_name |-> n, type_name |-> t, is_optional |-> opt, default |-> None, description |-> d]
DocstringReturns(t, d) == [return_name |-> None, type_name |-> t, description |-> d]
DocstringRaises(t, d) == [type_name |-> t, description |-> d]
DocstringExample(d) == [snippet |-> None, description |-> d]

\* docstring_parser.Docstring: short_description and long_description are
\* None or text; params, raises and examples are lists, empty when the
\* text declares none (they are never None); returns is None when the text
\* has no Returns section.
Docstring(s, l, ps, rs, ret, exs) ==
    [short_description |-> s, long_description |-> l, params |-> Some(ps),
     raises |-> Some(rs), returns |-> ret, examples |-> Some(exs)]

\* docstring_parser.parse(text), tabulated on the texts above.  The
\* numpydoc-style Returns section of DocNumpy names a type and gives no
\* description text: its description is None.
parse(text) ==
    CASE text = DocAdd ->
            Docstring(Some("Adds two numbers."), None,
                      << DocstringParam("a", None, None, Some(<<"first">>)),
                         DocstringParam("b", None, None, Some(<<"second">>)) >>,
                      <<>>, Some(DocstringReturns(Some("int"), Some(<<"sum">>))), <<>>)
      [] text = DocShort ->
            Docstring(Some("Says hi."), None, <<>>, <<>>, None, <<>>)
      [] text = DocNumpy ->
            Docstring(Some("Gets it."), None, <<>>, <<>>,
                      Some(DocstringReturns(Some("int"), None)), <<>>)
      [] text = DocScale ->
            Docstring(Some("Scales."), Some(<<"Long", "\n", "more.">>),
                      << DocstringParam("x", Some("str"), Some(FALSE), Some(<<"factor">>)) >>,
                      << DocstringRaises(Some("ValueError"), Some(<<"bad">>)) >>,
                      None,
                      << DocstringExample(Some(<<"usage">>)) >>)
      [] OTHER ->
            Docstring(None, None, <<>>, <<>>, None, <<>>)

\* ---------------------------------------------------------------------
\* Namespace values
\* ---------------------------------------------------------------------
\* A value of globals_dict: whether callable(v) holds, its __module__, and
\* for a function its signature and __doc__.
NoSig == [params |-> <<>>, ret |-> NoAnn]
DataValue == [callable |-> FALSE, module |-> "builtins", sig |-> NoSig, doc |-> None]
LocalObject == [callable |-> FALSE, module |-> "__main__", sig |-> NoSig, doc |-> None]
ImportedFunction == [callable |-> TRUE, module |-> "numpy", sig |-> NoSig, doc |-> Some(DocShort)]
LocalFunctions ==
    { [callable |-> TRUE, module |-> "__main__", sig |-> s, doc |-> d] : s \in Signatures, d \in Docs }
Values == {DataValue, LocalObject, ImportedFunction} \cup LocalFunctions

\* The identifiers of a namespace, in its iteration order.
Identifiers == <<"add", "scale", "np", "greet">>

\* globals_dict: an insertion-ordered mapping, as the sequence of its
\* (identifier, value) items.
Entry(n, v) == [name |-> n, value |-> v]
Namespace(k, vs) == [i \in 1..k |-> Entry(Identifiers[i], vs[i])]

VARIABLES
    globals_dict,       \* the namespace handed to render_documentation
    pc,                 \* "start", "collected", "parsed", "rendered", "raised"
    docstrings,         \* the mapping get_functions returned, in order
    parsed_docstrings,  \* the list parse_docstrings returned
    html,               \* the document generate_html returned
    err,                \* the exception that ended the run, or "none"
    frame               \* the function that raised it, or "none"

vars == <<globals_dict, pc, docstrings, parsed_docstrings, html, err, frame>>

\* ---------------------------------------------------------------------
\* get_functions
\* ---------------------------------------------------------------------
\* the filter without the ownership test
IsLocalCallable_AnyModule(v) == v.callable

\* callable(v) and v.__module__ == "__main__"
IsLocalCallable(v) == v.callable /\ v.module = "__main__"

\* func_list: the names of the local callables in the namespace's order,
\* here as the namespace's items
RECURSIVE func_list(_)
func_list(ns) ==
    IF ns = <<>> THEN <<>>
    ELSE IF IsLocalCallable(Head(ns).value) THEN <<Head(ns)>> \o func_list(Tail(ns))
    ELSE func_list(Tail(ns))

\* names_types[param_name] of one parameter
ParamType(ann) ==
    IF ann.kind = "none" THEN None
    ELSE IF ann.kind = "union" THEN Some(Join(" or ", MemberNames(ann)))
    ELSE IF AllNamed(ann) THEN Some(MemberNames(ann)[1])
    ELSE None

\* the list comprehension over get_args raises AttributeError; the single
\* type's lookup is inside try/except
ParamTypeRaises(ann) == ann.kind = "union" /\ ~AllNamed(ann)

\* the annotation of the parameter called n
AnnOf(sig, n) == (CHOOSE p \in {sig.params[i] : i \in DOMAIN sig.params} : p.name = n).ann

\* the entry of func_type_list: a dict keyed by the parameter names, or
\* None for a function without parameters
func_types(sig) ==
    IF Len(sig.params) > 0
    THEN Some([n \in {sig.params[i].name : i \in DOMAIN sig.params} |-> ParamType(AnnOf(sig, n))])
    ELSE None

\* the union's member names joined by a comma
ReturnType_CommaJoin(ann) ==
    IF ann.kind = "none" THEN None
    ELSE IF ann.kind = "union" THEN Some(Join(", ", MemberNames(ann)))
    ELSE Some(MemberNames(ann)[1])

\* the entry of ret_type_list
ReturnType(ann) ==
    IF ann.kind = "none" THEN None
    ELSE IF ann.kind = "union" THEN Some(Join(" or ", MemberNames(ann)))
    ELSE Some(MemberNames(ann)[1])

\* neither the comprehension over get_args nor the single type's lookup
\* is inside a try
ReturnTypeRaises(ann) == ann.kind # "none" /\ ~AllNamed(ann)

\* the loop body for one function raises AttributeError
CollectRaises(sig) ==
    \/ \E i \in DOMAIN sig.params : ParamTypeRaises(sig.params[i].ann)
    \/ ReturnTypeRaises(sig.ret)

\* docstrings[func_name]: [func_head, docstring or "", func_types, ret_type]
RawRecord(e) ==
    [name |-> e.name,
     head |-> e.name \o SignatureText(e.value.sig),
     docstring |-> IF IsNone(e.value.doc) THEN "" ELSE Get(e.value.doc),
     types |-> func_types(e.value.sig),
     ret_type |-> ReturnType(e.value.sig.ret)]

\* the mapping get_functions returns, as the sequence of its values
get_functions(ns) == [i \in DOMAIN func_list(ns) |-> RawRecord(func_list(ns)[i])]

get_functions_raises(ns) == \E i \in DOMAIN func_list(ns) : CollectRaises(func_list(ns)[i].value.sig)

Init ==
    /\ \E k \in 0..MaxEntries : \E vs \in [1..k -> Values] : globals_dict = Namespace(k, vs)
    /\ pc = "start"
    /\ docstrings = <<>>
    /\ parsed_docstrings = <<>>
    /\ html = None
    /\ err = "none"
    /\ frame = "none"

GetFunctions ==
    /\ pc = "start"
    /\ IF get_functions_raises(globals_dict)
       THEN /\ pc' = "raised"
            /\ err' = "AttributeError"
            /\ frame' = "get_functions"
            /\ UNCHANGED docstrings
       ELSE /\ pc' = "collected"
            /\ docstrings' = get_functions(globals_dict)
            /\ UNCHANGED <<err, frame>>
    /\ UNCHANGED <<globals_dict, parsed_docstrings, html>>

\* ---------------------------------------------------------------------
\* parse_docstrings
\* ---------------------------------------------------------------------
\* text.replace(...) of an attribute that is None raises AttributeError
EscapeRaises(description) == IsNone(description)

\* one element of "args"
ArgDetails(arg, types) ==
    [arg_name |-> arg.arg_name,
     arg_type |-> IF arg.arg_name \in DOMAIN Get(types)
                  THEN Get(types)[arg.arg_name]
                  ELSE arg.type_name,
     is_optional |-> arg.is_optional,
     default |-> arg.default,
     description |-> arg.description]

\* "arg.arg_name in types" with types None raises TypeError; the test is
\* evaluated once per parsed parameter
ArgsRaise(parsed, types) ==
    /\ ~IsNone(parsed.params)
    /\ Len(Get(parsed.params)) > 0
    /\ IsNone(types)

args(parsed, types) ==
    IF ~IsNone(parsed.params)
    THEN Some([i \in DOMAIN Get(parsed.params) |-> ArgDetails(Get(parsed.params)[i], types)])
    ELSE None

RaisesRaise(parsed) ==
    /\ ~IsNone(parsed.raises)
    /\ \E i \in DOMAIN Get(parsed.raises) : EscapeRaises(Get(parsed.raises)[i].description)

raises(parsed) ==
    IF ~IsNone(parsed.raises)
    THEN Some([i \in DOMAIN Get(parsed.raises) |->
                 [type |-> Get(parsed.raises)[i].type_name,
                  description |-> Escape(Get(Get(parsed.raises)[i].description))]])
    ELSE None

\* the docstring's type name preferred over the declared return type
returns_DocstringFirst(parsed, ret_type) ==
    IF ~IsNone(parsed.returns)
    THEN Some([name |-> Get(parsed.returns).return_name,
               type |-> IF ~IsNone(Get(parsed.returns).type_name)
                        THEN Get(parsed.returns).type_name ELSE ret_type,
               description |-> Escape(Get(Get(parsed.returns).description))])
    ELSE None

ReturnsRaise(parsed) ==
    /\ ~IsNone(parsed.returns)
    /\ EscapeRaises(Get(parsed.returns).description)

returns(parsed, ret_type) ==
    IF ~IsNone(parsed.returns)
    THEN Some([name |-> Get(parsed.returns).return_name,
               type |-> IF ~IsNone(ret_type) THEN ret_type ELSE Get(parsed.returns).type_name,
               description |-> Escape(Get(Get(parsed.returns).description))])
    ELSE None

ExamplesRaise(parsed) ==
    /\ ~IsNone(parsed.examples)
    /\ \E i \in DOMAIN Get(parsed.examples) : EscapeRaises(Get(parsed.examples)[i].description)

examples(parsed) ==
    IF ~IsNone(parsed.examples)
    THEN Some([i \in DOMAIN Get(parsed.examples) |->
                 [description |-> Escape(Get(Get(parsed.examples)[i].description)),
                  snippet |-> Get(parsed.examples)[i].snippet]])
    ELSE None

long_description(parsed) ==
    IF ~IsNone(parsed.long_description)
    THEN Some(Escape(Get(parsed.long_description)))
    ELSE parsed.long_description

\* the exception building func_details raises for one raw record, in the
\* order the dict display evaluates its values, or "none"
FuncDetailsError(raw) ==
    IF ArgsRaise(parse(raw.docstring), raw.types) THEN "TypeError"
    ELSE IF RaisesRaise(parse(raw.docstring)) THEN "AttributeError"
    ELSE IF ReturnsRaise(parse(raw.docstring)) THEN "AttributeError"
    ELSE IF ExamplesRaise(parse(raw.docstring)) THEN "AttributeError"
    ELSE "none"

\* func_details of one raw record
func_details(raw) ==
    [name |-> raw.name,
     head |-> raw.head,
     short_description |-> parse(raw.docstring).short_description,
     long_description |-> long_description(parse(raw.docstring)),
     args |-> args(parse(raw.docstring), raw.types),
     raises |-> raises(parse(raw.docstring)),
     returns |-> returns(parse(raw.docstring), raw.ret_type),
     examples |-> examples(parse(raw.docstring))]

\* the records inserted at the front of funcs instead of appended
parse_docstrings_Reversed(raws) == [i \in DOMAIN raws |-> func_details(raws[Len(raws) + 1 - i])]

\* funcs: one func_details per item of the mapping, appended in its order
parse_docstrings(raws) == [i \in DOMAIN raws |-> func_details(raws[i])]

\* the exception of the first record that raises one, or "none"
RECURSIVE parse_docstrings_error(_)
parse_docstrings_error(raws) ==
    IF raws = <<>> THEN "none"
    ELSE IF FuncDetailsError(Head(raws)) # "none" THEN FuncDetailsError(Head(raws))
    ELSE parse_docstrings_error(Tail(raws))

ParseDocstrings ==
    /\ pc = "collected"
    /\ IF parse_docstrings_error(docstrings) # "none"
       THEN /\ pc' = "raised"
            /\ err' = parse_docstrings_error(docstrings)
            /\ frame' = "parse_docstrings"
            /\ UNCHANGED parsed_docstrings
       ELSE /\ pc' = "parsed"
            /\ parsed_docstrings' = parse_docstrings(docstrings)
            /\ UNCHANGED <<err, frame>>
    /\ UNCHANGED <<globals_dict, docstrings, html>>

\* ---------------------------------------------------------------------
\* generate_html
\* ---------------------------------------------------------------------
\* The "length" filter is len: applied to None it raises TypeError.
LengthRaises(value) == IsNone(value)
Length(value) == Len(Get(value))

\* the template's block of one record raises
BlockRaises(docstring) ==
    \/ LengthRaises(docstring.args)
    \/ LengthRaises(docstring.raises)
    \/ LengthRaises(docstring.examples)

\* one entry of the side panel: a hyperlink to the anchor when links is
\* set, a plain list item otherwise
NavEntry(docstring, links) ==
    [name |-> docstring.name, href |-> IF links THEN Some("#" \o docstring.name) ELSE None]

\* <li> <i>arg_name</i>: description (arg_type) </li>
ArgItem(arg) == [arg_name |-> arg.arg_name, description |-> arg.description, arg_type |-> arg.arg_type]

\* the items under <b>Args:</b>, and whether the "None" placeholder is shown
ArgsItems(docstring) ==
    IF Length(docstring.args) > 0
    THEN [i \in DOMAIN Get(docstring.args) |-> ArgItem(Get(docstring.args)[i])]
    ELSE <<>>
ArgsPlaceholder(docstring) == ~(Length(docstring.args) > 0)

\* the item under <b>Returns:</b>, and whether the "None" placeholder is shown
ReturnsItems(docstring) ==
    IF ~IsNone(docstring.returns)
    THEN << [type |-> Get(docstring.returns).type, description |-> Get(docstring.returns).description] >>
    ELSE <<>>
ReturnsPlaceholder(docstring) == IsNone(docstring.returns)

\* the Raises and Examples sections exist only when the list is not empty
RaisesSection(docstring) == Length(docstring.raises) > 0
ExamplesSection(docstring) == Length(docstring.examples) > 0

\* the <div id="name"> block of one record in the main panel
Block(docstring) ==
    [anchor |-> docstring.name,
     name |-> docstring.name,
     head |-> docstring.head,
     short_description |-> docstring.short_description,
     long_description |-> docstring.long_description,
     args |-> ArgsItems(docstring),
     args_placeholder |-> ArgsPlaceholder(docstring),
     returns |-> ReturnsItems(docstring),
     returns_placeholder |-> ReturnsPlaceholder(docstring),
     raises_section |-> RaisesSection(docstring),
     raises |-> IF RaisesSection(docstring) THEN Get(docstring.raises) ELSE <<>>,
     examples_section |-> ExamplesSection(docstring),
     examples |-> IF ExamplesSection(docstring)
                  THEN [i \in DOMAIN Get(docstring.examples) |-> Get(docstring.examples)[i].description]
                  ELSE <<>>]

\* template.render(docstrings, title, links)
generate_html(records, title, enable_links) ==
    [title |-> title,
     nav |-> [i \in DOMAIN records |-> NavEntry(records[i], enable_links)],
     blocks |-> [i \in DOMAIN records |-> Block(records[i])]]

generate_html_raises(records) == \E i \in DOMAIN records : BlockRaises(records[i])

\* the arguments render_documentation is called with
ModuleNames == {None, Some("Dummy Module")}

\* title=module_name if module_name is not None else "Notebook"
Title(module_name) == IF ~IsNone(module_name) THEN Get(module_name) ELSE "Notebook"

GenerateHtml ==
    /\ pc = "parsed"
    /\ \E module_name \in ModuleNames, enable_links \in BOOLEAN :
        IF generate_html_raises(parsed_docstrings)
        THEN /\ pc' = "raised"
             /\ err' = "TypeError"
             /\ frame' = "generate_html"
             /\ UNCHANGED html
        ELSE /\ pc' = "rendered"
             /\ html' = Some(generate_html(parsed_docstrings, Title(module_name), enable_links))
             /\ UNCHANGED <<err, frame>>
    /\ UNCHANGED <<globals_dict, docstrings, parsed_docstrings>>

\* render_documentation(globals_dict, module_name, enable_links)
Next == GetFunctions \/ ParseDocstrings \/ GenerateHtml

Spec == Init /\ [][Next]_vars

\* ---------------------------------------------------------------------
\* generate_html called on a list of normalized records
\* ---------------------------------------------------------------------
\* The values a normalized record's fields take: each list is None, empty
\* or has an entry; returns is None or an entry.
ArgsValues ==
    {None, Some(<<>>),
     Some(<< [arg_name |-> "a", arg_type |-> Some("int"), is_optional |-> None,
              default |-> None, description |-> Some(<<"first">>)] >>)}
ReturnsValues ==
    {None, Some([name |-> None, type |-> Some("int"), description |-> <<"sum">>])}
RaisesValues ==
    {None, Some(<<>>), Some(<< [type |-> Some("ValueError"), description |-> <<"bad">>] >>)}
ExamplesValues ==
    {None, Some(<<>>), Some(<< [description |-> <<"usage">>, snippet |-> None] >>)}

NormalizedRecord(n, a, r, ret, e) ==
    [name |-> n, head |-> n \o "()", short_description |-> None, long_description |-> None,
     args |-> a, raises |-> r, returns |-> ret, examples |-> e]

RecordList(k, a, r, ret, e) ==
    [i \in 1..k |-> NormalizedRecord(Identifiers[i], a[i], r[i], ret[i], e[i])]

InitRender ==
    /\ globals_dict = <<>>
    /\ pc = "parsed"
    /\ docstrings = <<>>
    /\ \E k \in 0..MaxRecords :
        \E a \in [1..k -> ArgsValues], r \in [1..k -> RaisesValues],
           ret \in [1..k -> ReturnsValues], e \in [1..k -> ExamplesValues] :
            parsed_docstrings = RecordList(k, a, r, ret, e)
    /\ html = None
    /\ err = "none"
    /\ frame = "none"

NextRender == GenerateHtml

SpecRender == InitRender /\ [][NextRender]_vars

\* ---------------------------------------------------------------------
\* Properties
\* ---------------------------------------------------------------------
\* get_functions returned
Collected == pc \in {"collected", "parsed", "rendered"} \/ (pc = "raised" /\ frame # "get_functions")
\* parse_docstrings returned
Parsed == pc \in {"parsed", "rendered"} \/ (pc = "raised" /\ frame = "generate_html")
\* generate_html returned
Rendered == pc = "rendered"

\* the namespace's entries that are callable and owned by "__main__"
LocalIndices == {i \in DOMAIN globals_dict :
                    globals_dict[i].value.callable /\ globals_dict[i].value.module = "__main__"}
\* the value bound to an identifier of the namespace
ValueOf(n) == (CHOOSE e \in {globals_dict[i] : i \in DOMAIN globals_dict} : e.name = n).value
\* the position of an identifier in the namespace
IndexOf(n) == CHOOSE i \in DOMAIN globals_dict : globals_dict[i].name = n
RawNames == {docstrings[j].name : j \in DOMAIN docstrings}

\* C1: when get_functions returns, the mapping has a record for exactly
\* the entries that are callable and whose __module__ is "__main__", one
\* each; a namespace without such an entry makes it return the empty
\* mapping.
C1_ExactlyLocalCallables ==
    /\ Collected =>
        /\ RawNames = {globals_dict[i].name : i \in LocalIndices}
        /\ Len(docstrings) = Cardinality(LocalIndices)
    /\ (pc # "start" /\ LocalIndices = {}) => (Collected /\ docstrings = <<>>)

C1_Witness ==
    /\ pc = "collected"
    /\ Len(docstrings) = 1
    /\ \E i \in DOMAIN globals_dict : globals_dict[i].value = ImportedFunction
    /\ \E i \in DOMAIN globals_dict : globals_dict[i].name \in RawNames

C3_UnresolvedDegrades ==
    pc # "start" =>
        /\ Collected
        /\ \A i \in LocalIndices :
            /\ globals_dict[i].name \in RawNames
            /\ \A j \in DOMAIN docstrings :
                docstrings[j].name = globals_dict[i].name =>
                    LET sig == globals_dict[i].value.sig IN
                    /\ (sig.ret.kind # "none" /\ ~AllNamed(sig.ret)) => IsNone(docstrings[j].ret_type)
                    /\ \A k \in DOMAIN sig.params :
                        (sig.params[k].ann.kind # "none" /\ ~AllNamed(sig.params[k].ann)) =>
                            IsNone(Get(docstrings[j].types)[sig.params[k].name])

\* an entry of the parsed docstring has no description text
Malformed(text) ==
    \/ \E i \in DOMAIN Get(parse(text).raises) : IsNone(Get(parse(text).raises)[i].description)
    \/ ~IsNone(parse(text).returns) /\ IsNone(Get(parse(text).returns).description)
    \/ \E i \in DOMAIN Get(parse(text).examples) : IsNone(Get(parse(text).examples)[i].description)

\* C4: parse_docstrings does not raise on a docstring whose section is
\* malformed (an entry with no description text), and the record of such a
\* docstring has all its structured fields absent.
C4_MalformedDegrades ==
    /\ ~(pc = "raised" /\ frame = "parse_docstrings" /\ err = "AttributeError")
    /\ Parsed =>
        \A j \in DOMAIN docstrings :
            Malformed(docstrings[j].docstring) =>
                /\ IsNone(parsed_docstrings[j].args)
                /\ IsNone(parsed_docstrings[j].raises)
                /\ IsNone(parsed_docstrings[j].returns)
                /\ IsNone(parsed_docstrings[j].examples)

\* the local functions of the namespace that declare no parameter
NoParamIndices == {i \in LocalIndices : Len(globals_dict[i].value.sig.params) = 0}

\* C5: a local function without parameters, whatever its docstring, goes
\* through get_functions and parse_docstrings; its normalized record has
\* an absent parameter list and its block shows the "None" placeholder
\* under Args.
C5_NoParameters ==
    (Collected /\ pc # "collected" /\ NoParamIndices # {}) =>
        /\ Parsed
        /\ \A j \in DOMAIN parsed_docstrings :
            IndexOf(parsed_docstrings[j].name) \in NoParamIndices =>
                /\ IsNone(parsed_docstrings[j].args)
                /\ Rendered => Get(html).blocks[j].args_placeholder

\* the local functions of the namespace without a docstring
NoDocIndices == {i \in LocalIndices : IsNone(globals_dict[i].value.doc)}

\* C6: a local function without a docstring is collected with the empty
\* string as docstring text; its normalized record has short_description,
\* parameters and return_doc absent; its block shows the "None"
\* placeholder under Args and under Returns and has no Raises and no
\* Examples section; no step raises.
C6_NoDocstring ==
    (pc # "start" /\ NoDocIndices # {}) =>
        /\ pc # "raised"
        /\ \A j \in DOMAIN docstrings :
            IndexOf(docstrings[j].name) \in NoDocIndices =>
                /\ docstrings[j].docstring = ""
                /\ Parsed =>
                    /\ IsNone(parsed_docstrings[j].short_description)
                    /\ IsNone(parsed_docstrings[j].args)
                    /\ IsNone(parsed_docstrings[j].returns)
                /\ Rendered =>
                    /\ Get(html).blocks[j].args_placeholder
                    /\ Get(html).blocks[j].returns_placeholder
                    /\ ~Get(html).blocks[j].raises_section
                    /\ ~Get(html).blocks[j].examples_section

\* C7: generate_html renders every list of normalized records without
\* raising; a record with absent or empty parameters shows the "None"
\* placeholder under Args, one with absent return_doc shows it under
\* Returns, and one with absent raised_errors or examples has no Raises or
\* Examples section.
C7_RenderTotal ==
    pc # "parsed" =>
        /\ Rendered
        /\ \A j \in DOMAIN parsed_docstrings :
            LET rec == parsed_docstrings[j]
                block == Get(html).blocks[j] IN
            /\ (IsNone(rec.args) \/ rec.args = Some(<<>>)) => block.args_placeholder
            /\ IsNone(rec.returns) => block.returns_placeholder
            /\ IsNone(rec.raises) => ~block.raises_section
            /\ IsNone(rec.examples) => ~block.examples_section

\* C8: the functions stay in one-to-one correspondence and in order: the
\* raw records are those of the namespace's local callables in the
\* namespace's order, each with its own function's signature, docstring
\* and types; parse_docstrings returns one normalized record per raw
\* record, in order, with that record's name and signature; the document
\* has one block per normalized record, in order, anchored by its name.
C8_OneToOneInOrder ==
    /\ Collected =>
        /\ \A j \in DOMAIN docstrings :
            /\ IndexOf(docstrings[j].name) \in LocalIndices
            /\ docstrings[j] = RawRecord(globals_dict[IndexOf(docstrings[j].name)])
        /\ \A j, k \in DOMAIN docstrings :
            j < k => IndexOf(docstrings[j].name) < IndexOf(docstrings[k].name)
    /\ Parsed =>
        /\ Len(parsed_docstrings) = Len(docstrings)
        /\ \A j \in DOMAIN docstrings :
            /\ parsed_docstrings[j].name = docstrings[j].name
            /\ parsed_docstrings[j].head = docstrings[j].head
            /\ parsed_docstrings[j].short_description = parse(docstrings[j].docstring).short_description
    /\ Rendered =>
        /\ Len(Get(html).blocks) = Len(parsed_docstrings)
        /\ \A j \in DOMAIN parsed_docstrings :
            /\ Get(html).blocks[j].anchor = parsed_docstrings[j].name
            /\ Get(html).blocks[j].head = parsed_docstrings[j].head

C8_Witness ==
    /\ Rendered
    /\ Len(Get(html).blocks) = 2
    /\ Get(html).blocks[1].head # Get(html).blocks[2].head
    /\ parsed_docstrings[1].short_description # parsed_docstrings[2].short_description

\* C9: for every raw record, also of a function without parameters, and
\* every parameter parsed from its docstring, the resolved type is the
\* entry of the declared param_types when the parameter name is one of its
\* keys (even if that entry is absent) and the docstring's type name
\* otherwise.
C9_ParamTypeResolution ==
    (Collected /\ pc # "collected") =>
        /\ ~(frame = "parse_docstrings" /\ err = "TypeError")
        /\ Parsed =>
            \A j \in DOMAIN docstrings :
                LET params == Get(parse(docstrings[j].docstring).params)
                    types == docstrings[j].types IN
                \A k \in DOMAIN params :
                    Get(parsed_docstrings[j].args)[k].arg_type =
                        IF ~IsNone(types) /\ params[k].arg_name \in DOMAIN Get(types)
                        THEN Get(types)[params[k].arg_name]
                        ELSE params[k].type_name

\* C10: a docstring without a Returns section gives an absent return_doc;
\* with one, return_doc.type is the declared return type when the function
\* has a return annotation and the docstring's type name when it has none.
C10_ReturnResolution ==
    Parsed =>
        \A j \in DOMAIN docstrings :
            LET ret == ValueOf(docstrings[j].name).sig.ret
                doc == parse(docstrings[j].docstring) IN
            IF IsNone(doc.returns)
            THEN IsNone(parsed_docstrings[j].returns)
            ELSE /\ ~IsNone(parsed_docstrings[j].returns)
                 /\ Get(parsed_docstrings[j].returns).type =
                        IF ret.kind # "none"
                        THEN Some(Join(" or ", MemberNames(ret)))
                        ELSE Get(doc.returns).type_name

C10_Witness ==
    /\ pc = "parsed"
    /\ \E j \in DOMAIN docstrings :
        /\ docstrings[j].docstring = DocAdd
        /\ ValueOf(docstrings[j].name).sig.ret = StrOrIntAnn
        /\ Get(parsed_docstrings[j].returns).type = Some("str or int")
    /\ \E j \in DOMAIN docstrings :
        /\ docstrings[j].docstring = DocShort
        /\ IsNone(parsed_docstrings[j].returns)

====
